---- MODULE Spec2Model ----
(***************************************************************************)
(* A model of convert_nc_to_json.py: one call of convert_nc_to_json(),     *)
(* from the open of the NetCDF file to the return of the function.         *)
(*                                                                         *)
(* A raw value of a NetCDF array and a value of a converted list is a      *)
(* tagged record: Num(n) is the number n, NaN is the IEEE not-a-number     *)
(* (every ordered comparison with it is false), None is Python's None.     *)
(***************************************************************************)
EXTENDS Integers, Sequences, FiniteSets, TLC

VARIABLES
    variables,  \* f.variables: the dataset, variable name -> raw array
    f,          \* the dataset handle: "unbound", "open" or "closed"
    times,      \* the five converted lists (lines 31-35)
    bx,
    by,
    bz,
    bt,
    bound,      \* the names among times, bx, by, bz, bt that are assigned so far
    data_list,  \* the records assembled so far (line 37)
    i,          \* the loop index of line 39
    outfile,    \* the file at json_output_path
    printed,    \* the messages printed so far
    outcome,    \* "running", "returned", or "propagated" (an exception escaped)
    pc          \* the position in the function

vars == <<variables, f, times, bx, by, bz, bt, bound, data_list, i, outfile, printed, outcome, pc>>

----------------------------------------------------------------------------
(* Bounds of the model *)

\* the longest time array of the multi-observation datasets
MaxLen == 2

----------------------------------------------------------------------------
(* Values *)

Num(n) == [k |-> "num", v |-> n]
NaN == [k |-> "nan", v |-> 0]
None == [k |-> "none", v |-> 0]

\* line 26: the documented missing value (the code never reads it)
missing_val == -99999

\* line 29: the literal the comprehension compares with
Threshold == -90000

\* x > c as Python and numpy evaluate it: false when x is NaN
GT(x, c) == x.k = "num" /\ x.v > c

\* float(x), line 29: a numpy float32/float64 scalar widens exactly, NaN stays NaN
Float(x) == IF x.k = "num" THEN Num(x.v) ELSE NaN

\* the five names looked up at lines 31-35, in that order
Required == <<"time", "bx_gsm", "by_gsm", "bz_gsm", "bt">>

Names == {Required[n] : n \in 1..Len(Required)}

Fields == Names \ {"time"}

\* the keys of an entry, lines 44-50
Keys == {"time", "bx", "by", "bz", "bt"}

----------------------------------------------------------------------------
(* get_data, lines 21-29 *)

\* a conversion that nulls only the documented missing value
Convert_exact(data) == [j \in 1..Len(data) |-> IF data[j] = Num(missing_val) THEN None ELSE Float(data[j])]

\* the list comprehension of line 29 over a raw array
Convert(data) == [j \in 1..Len(data) |-> IF GT(data[j], Threshold) THEN Float(data[j]) ELSE None]

\* a lookup that takes an absent variable for an empty array
Lookup_default(var_name) ==
    [found |-> TRUE, data |-> IF var_name \in DOMAIN variables THEN variables[var_name] ELSE <<>>]

\* line 22: f.variables[var_name] finds the raw array or raises KeyError
Lookup(var_name) ==
    IF var_name \in DOMAIN variables
    THEN [found |-> TRUE, data |-> variables[var_name]]
    ELSE [found |-> FALSE, data |-> <<>>]

\* the call as a whole: the KeyError of line 22, or the list of line 29
get_data(var_name) ==
    LET var == Lookup(var_name)
    IN  [raised |-> ~var.found, val |-> Convert(var.data)]

----------------------------------------------------------------------------
(* Messages and the handler *)

Success(n) == [kind |-> "success", count |-> n, exc |-> "none"]

Failure(e) == [kind |-> "error", count |-> 0, exc |-> e]

\* a handler that catches KeyError alone
Except_narrow(e) ==
    /\ printed' = IF e = "KeyError" THEN Append(printed, Failure(e)) ELSE printed
    /\ outcome' = IF e = "KeyError" THEN "returned" ELSE "propagated"
    /\ pc' = "done"

\* lines 60-61: every Exception is caught, reported, and the function returns
Except(e) ==
    /\ printed' = Append(printed, Failure(e))
    /\ outcome' = "returned"
    /\ pc' = "done"

----------------------------------------------------------------------------
(* The datasets the model runs on *)

\* raw values of the one-observation datasets: the documented sentinel, the
\* threshold, its successor, an ordinary measurement, and NaN
RawVals == {Num(missing_val), Num(Threshold), Num(Threshold + 1), Num(7), NaN}

\* raw time values of the misaligned datasets
TimeVals == {Num(Threshold), Num(Threshold + 1), NaN}

\* raw values of the aligned multi-observation datasets: the two sides of the threshold
AlignedVals == {Num(Threshold), Num(Threshold + 1)}

Arrays(n, S) == [1..n -> S]

\* <<1, 2, ..., n>> as a raw array
Ramp(n) == [j \in 1..n |-> Num(j)]

\* every variable absent or holding one observation, over all raw values
OneObservation ==
    \E P \in SUBSET Names :
        variables \in [P -> Arrays(Len(<<"x">>), RawVals)]

\* all five variables present with the same length
Aligned ==
    \E n \in 0..MaxLen :
        \E t \in Arrays(n, AlignedVals), a \in Arrays(n, AlignedVals), b \in Arrays(n, AlignedVals),
           c \in Arrays(n, AlignedVals), d \in Arrays(n, AlignedVals) :
            variables = [time |-> t, bx_gsm |-> a, by_gsm |-> b, bz_gsm |-> c, bt |-> d]

\* all five present, each field of any length up to one more than the longest time array
Misaligned ==
    \E n \in 0..MaxLen :
        \E t \in Arrays(n, TimeVals), la \in 0..(MaxLen + 1), lb \in 0..(MaxLen + 1),
           lc \in 0..(MaxLen + 1), ld \in 0..(MaxLen + 1) :
            variables = [time |-> t, bx_gsm |-> Ramp(la), by_gsm |-> Ramp(lb),
                         bz_gsm |-> Ramp(lc), bt |-> Ramp(ld)]

Datasets == OneObservation \/ Aligned \/ Misaligned

----------------------------------------------------------------------------
(* The state machine *)

\* the file at json_output_path: "untouched" (absent, or whatever it held before
\* the call), "partial" (opened with 'w', so truncated, and not written to its
\* end) or "complete" (the whole document written and the file closed)
Untouched == [state |-> "untouched", recs |-> <<>>]

Init ==
    /\ Datasets
    /\ f = "unbound"
    /\ times = <<>> /\ bx = <<>> /\ by = <<>> /\ bz = <<>> /\ bt = <<>>
    /\ bound = {}
    /\ data_list = <<>>
    /\ i = 0
    /\ outfile = Untouched
    /\ printed = <<>>
    /\ outcome = "running"
    /\ pc = "open"

\* line 13: netcdf_file(...) returns the handle or raises
Open ==
    /\ pc = "open"
    /\ \E ok \in BOOLEAN :
        IF ok
        THEN /\ f' = "open"
             /\ pc' = "get_time"
             /\ UNCHANGED <<printed, outcome>>
        ELSE /\ Except("IOError")
             /\ UNCHANGED f
    /\ UNCHANGED <<variables, times, bx, by, bz, bt, bound, data_list, i, outfile>>

\* line 31
GetTimes ==
    /\ pc = "get_time"
    /\ LET r == get_data("time")
       IN  IF r.raised
           THEN /\ Except("KeyError")
                /\ UNCHANGED <<times, bound>>
           ELSE /\ times' = r.val
                /\ bound' = bound \cup {"times"}
                /\ pc' = "get_bx"
                /\ UNCHANGED <<printed, outcome>>
    /\ UNCHANGED <<variables, f, bx, by, bz, bt, data_list, i, outfile>>

\* line 32
GetBx ==
    /\ pc = "get_bx"
    /\ LET r == get_data("bx_gsm")
       IN  IF r.raised
           THEN /\ Except("KeyError")
                /\ UNCHANGED <<bx, bound>>
           ELSE /\ bx' = r.val
                /\ bound' = bound \cup {"bx"}
                /\ pc' = "get_by"
                /\ UNCHANGED <<printed, outcome>>
    /\ UNCHANGED <<variables, f, times, by, bz, bt, data_list, i, outfile>>

\* line 33
GetBy ==
    /\ pc = "get_by"
    /\ LET r == get_data("by_gsm")
       IN  IF r.raised
           THEN /\ Except("KeyError")
                /\ UNCHANGED <<by, bound>>
           ELSE /\ by' = r.val
                /\ bound' = bound \cup {"by"}
                /\ pc' = "get_bz"
                /\ UNCHANGED <<printed, outcome>>
    /\ UNCHANGED <<variables, f, times, bx, bz, bt, data_list, i, outfile>>

\* line 34
GetBz ==
    /\ pc = "get_bz"
    /\ LET r == get_data("bz_gsm")
       IN  IF r.raised
           THEN /\ Except("KeyError")
                /\ UNCHANGED <<bz, bound>>
           ELSE /\ bz' = r.val
                /\ bound' = bound \cup {"bz"}
                /\ pc' = "get_bt"
                /\ UNCHANGED <<printed, outcome>>
    /\ UNCHANGED <<variables, f, times, bx, by, bt, data_list, i, outfile>>

\* lines 35-37: the last lookup, then data_list = [] and the loop starts
GetBt ==
    /\ pc = "get_bt"
    /\ LET r == get_data("bt")
       IN  IF r.raised
           THEN /\ Except("KeyError")
                /\ UNCHANGED <<bt, bound>>
           ELSE /\ bt' = r.val
                /\ bound' = bound \cup {"bt"}
                /\ pc' = "loop"
                /\ UNCHANGED <<printed, outcome>>
    /\ UNCHANGED <<variables, f, times, bx, by, bz, data_list, i, outfile>>

\* a loop that skips no index
Skips_never(t) == FALSE

\* lines 41-42: the test that skips an index
Skips(t) == t = None

\* an entry whose fields come from the next free output position
Entry_compact(n) == [time |-> times[n + 1], bx |-> bx[Len(data_list) + 1], by |-> by[Len(data_list) + 1],
                     bz |-> bz[Len(data_list) + 1], bt |-> bt[Len(data_list) + 1]]

\* an entry whose fields are all null as soon as one of them is
Entry_nullspread(n) ==
    IF None \in {bx[n + 1], by[n + 1], bz[n + 1], bt[n + 1]}
    THEN [time |-> times[n + 1], bx |-> None, by |-> None, bz |-> None, bt |-> None]
    ELSE [time |-> times[n + 1], bx |-> bx[n + 1], by |-> by[n + 1], bz |-> bz[n + 1], bt |-> bt[n + 1]]

\* lines 44-50: the entry of index n (0-based, as in the code)
Entry(n) == [time |-> times[n + 1], bx |-> bx[n + 1], by |-> by[n + 1],
             bz |-> bz[n + 1], bt |-> bt[n + 1]]

\* an alignment check: any field whose length is not that of times
OutOfRange_strict(n) ==
    \/ Len(bx) # Len(times) \/ Len(by) # Len(times)
    \/ Len(bz) # Len(times) \/ Len(bt) # Len(times)

\* bx[n], by[n], bz[n] or bt[n] raises IndexError
OutOfRange(n) == n >= Len(bx) \/ n >= Len(by) \/ n >= Len(bz) \/ n >= Len(bt)

\* lines 39-51: one iteration of the loop
LoopStep ==
    /\ pc = "loop"
    /\ i < Len(times)
    /\ IF Skips(times[i + 1])
       THEN /\ i' = i + 1
            /\ UNCHANGED <<data_list, printed, outcome, pc>>
       ELSE IF OutOfRange(i)
       THEN /\ Except("IndexError")
            /\ UNCHANGED <<data_list, i>>
       ELSE /\ data_list' = Append(data_list, Entry(i))
            /\ i' = i + 1
            /\ UNCHANGED <<printed, outcome, pc>>
    /\ UNCHANGED <<variables, f, times, bx, by, bz, bt, bound, outfile>>

\* line 39: range(len(times)) is exhausted
LoopEnd ==
    /\ pc = "loop"
    /\ i = Len(times)
    /\ pc' = "write"
    /\ UNCHANGED <<variables, f, times, bx, by, bz, bt, bound, data_list, i, outfile, printed, outcome>>

\* line 54: open(json_output_path, 'w') truncates the file or raises
OpenOut ==
    /\ pc = "write"
    /\ \E ok \in BOOLEAN :
        IF ok
        THEN /\ outfile' = [state |-> "partial", recs |-> <<>>]
             /\ pc' = "dump"
             /\ UNCHANGED <<printed, outcome>>
        ELSE /\ Except("WriteError")
             /\ UNCHANGED outfile
    /\ UNCHANGED <<variables, f, times, bx, by, bz, bt, bound, data_list, i>>

\* line 55: json.dump writes the document piece by piece, one record per step and
\* then the end of the array; a write that raises leaves what was written so far
Dump ==
    /\ pc = "dump"
    /\ \E ok \in BOOLEAN :
        IF ~ok
        THEN /\ Except("WriteError")
             /\ UNCHANGED outfile
        ELSE IF Len(outfile.recs) < Len(data_list)
        THEN /\ outfile' = [outfile EXCEPT !.recs = Append(@, data_list[Len(@) + 1])]
             /\ UNCHANGED <<printed, outcome, pc>>
        ELSE /\ outfile' = [outfile EXCEPT !.state = "complete"]
             /\ pc' = "print"
             /\ UNCHANGED <<printed, outcome>>
    /\ UNCHANGED <<variables, f, times, bx, by, bz, bt, bound, data_list, i>>

\* a count of the indices read
Reported_all == Len(times)

\* line 57: the count in the message, len(data_list)
Reported == Len(data_list)

\* line 57
PrintSuccess ==
    /\ pc = "print"
    /\ printed' = Append(printed, Success(Reported))
    /\ pc' = "close"
    /\ UNCHANGED <<variables, f, times, bx, by, bz, bt, bound, data_list, i, outfile, outcome>>

\* line 58: f.close(), then the function returns
Close ==
    /\ pc = "close"
    /\ \E ok \in BOOLEAN :
        IF ok
        THEN /\ f' = "closed"
             /\ outcome' = "returned"
             /\ pc' = "done"
             /\ UNCHANGED printed
        ELSE /\ Except("CloseError")
             /\ UNCHANGED f
    /\ UNCHANGED <<variables, times, bx, by, bz, bt, bound, data_list, i, outfile>>

Next ==
    \/ Open
    \/ GetTimes
    \/ GetBx
    \/ GetBy
    \/ GetBz
    \/ GetBt
    \/ LoopStep
    \/ LoopEnd
    \/ OpenOut
    \/ Dump
    \/ PrintSuccess
    \/ Close

Spec == Init /\ [][Next]_vars

\* the interpreter runs the function to its end: no step waits on anything
FairSpec == Init /\ [][Next]_vars /\ WF_vars(Next)

----------------------------------------------------------------------------
(* What the properties are stated in: the raw dataset, read directly *)

AllPresent == Names \subseteq DOMAIN variables

\* x <= Threshold as IEEE evaluates it: false when x is NaN
LE(x) == x.k = "num" /\ x.v <= Threshold

\* the converted list a name of the dataset is assigned to
ListOf(name) ==
    CASE name = "time" -> times
      [] name = "bx_gsm" -> bx
      [] name = "by_gsm" -> by
      [] name = "bz_gsm" -> bz
      [] name = "bt" -> bt

LocalOf(name) ==
    CASE name = "time" -> "times"
      [] name = "bx_gsm" -> "bx"
      [] name = "by_gsm" -> "by"
      [] name = "bz_gsm" -> "bz"
      [] name = "bt" -> "bt"

KeyOf(name) ==
    CASE name = "time" -> "time"
      [] name = "bx_gsm" -> "bx"
      [] name = "by_gsm" -> "by"
      [] name = "bz_gsm" -> "bz"
      [] name = "bt" -> "bt"

\* the indices (1-based) of the raw time array whose value is above the threshold
ValidTimeIdx ==
    IF "time" \in DOMAIN variables
    THEN {j \in 1..Len(variables["time"]) :
            variables["time"][j].k = "num" /\ variables["time"][j].v > Threshold}
    ELSE {}

\* the number of valid time indices up to j
Rank(j) == Cardinality({m \in ValidTimeIdx : m <= j})

\* the k-th smallest valid time index
KthValid(k) == CHOOSE j \in ValidTimeIdx : Rank(j) = k

\* null for a raw value at or below the threshold and for NaN, the value otherwise
Sub(x) == IF x.k = "nan" \/ x.v <= Threshold THEN None ELSE x

\* the record the raw arrays hold at index j
RowAt(j) == [time |-> Sub(variables["time"][j]), bx |-> Sub(variables["bx_gsm"][j]),
             by |-> Sub(variables["by_gsm"][j]), bz |-> Sub(variables["bz_gsm"][j]),
             bt |-> Sub(variables["bt"][j])]

Messages == {printed[n] : n \in 1..Len(printed)}

SuccessReported == \E m \in Messages : m.kind = "success"

ErrorReported == \E m \in Messages : m.kind = "error"

Reports(e) == \E m \in Messages : m.kind = "error" /\ m.exc = e

\* the loop of lines 39-51 ran to its end
Assembled ==
    \/ pc \in {"write", "dump", "print", "close"}
    \/ pc = "done" /\ (SuccessReported \/ Reports("WriteError"))

\* a valid time index at or beyond the end of one of the four field arrays
ShortAtValid ==
    \E j \in ValidTimeIdx : \E name \in Fields : j > Len(variables[name])

LengthsDiffer ==
    \E name \in Fields : Len(variables[name]) # Len(variables["time"])

----------------------------------------------------------------------------
(* C1 *)

\* C1 as stated: every value of every converted list is null if the raw value
\* is <= -90000 and the raw value itself otherwise.
C1_AsStated ==
    \A name \in Names :
        LocalOf(name) \in bound =>
            /\ Len(ListOf(name)) = Len(variables[name])
            /\ \A j \in 1..Len(variables[name]) :
                ListOf(name)[j] = IF LE(variables[name][j]) THEN None ELSE variables[name][j]

\* C1, amended: every value of every converted list is null if the raw value is
\* <= -90000 or is NaN, and the raw value itself otherwise (so -90000 and -99999
\* become null and every number above -90000 is kept).
C1_Sentinel ==
    \A name \in Names :
        LocalOf(name) \in bound =>
            /\ Len(ListOf(name)) = Len(variables[name])
            /\ \A j \in 1..Len(variables[name]) :
                LET x == variables[name][j]
                    y == ListOf(name)[j]
                IN  /\ (x.k = "nan" \/ LE(x)) => y = None
                    /\ (x.k = "num" /\ x.v > Threshold) => y = x

\* all five lists converted, from the sentinel, the threshold, its successor, NaN
C1_Witness ==
    /\ bound = {"times", "bx", "by", "bz", "bt"}
    /\ variables["time"] = <<Num(Threshold + 1)>>
    /\ variables["bx_gsm"] = <<Num(Threshold)>>
    /\ variables["by_gsm"] = <<Num(missing_val)>>
    /\ variables["bz_gsm"] = <<NaN>>
    /\ variables["bt"] = <<Num(7)>>
    /\ bx = <<None>> /\ bz = <<None>> /\ bt = <<Num(7)>>

----------------------------------------------------------------------------
(* C2 *)

\* C2: once success is reported, the reported count equals the length of the
\* array written to the output and the number of time indices above -90000; for
\* an empty time array the output is the empty array and the count is 0.
C2_Count ==
    \A m \in Messages :
        m.kind = "success" =>
            /\ outfile.state = "complete"
            /\ m.count = Len(outfile.recs)
            /\ m.count = Cardinality(ValidTimeIdx)
            /\ (Len(variables["time"]) = 0 => outfile.recs = <<>> /\ m.count = 0)

\* a success with one index skipped and one kept
C2_Witness ==
    /\ SuccessReported
    /\ Len(variables["time"]) = 2
    /\ Len(outfile.recs) = 1

----------------------------------------------------------------------------
(* C3 *)

\* C3: the k-th record, in data_list and in the output, is the row of the k-th
\* smallest valid time index, all five fields from that index.
C3_Order ==
    /\ Len(data_list) <= Cardinality(ValidTimeIdx)
    /\ \A k \in 1..Len(data_list) : data_list[k] = RowAt(KthValid(k))
    /\ Len(outfile.recs) <= Len(data_list)
    /\ \A k \in 1..Len(outfile.recs) : outfile.recs[k] = data_list[k]

\* a written document whose only record comes from the second index, the first
\* index skipped, the two rows different
C3_Witness ==
    /\ outfile.state = "complete"
    /\ Len(outfile.recs) = 1
    /\ ValidTimeIdx = {2}
    /\ outfile.recs[1].bx # Sub(variables["bx_gsm"][1])
    /\ outfile.recs[1].bt # Sub(variables["bt"][1])

----------------------------------------------------------------------------
(* C4 *)

\* C4 as stated: when the loop is over, every index with a valid time has its
\* record, and each of bx, by, bz, bt is null in it iff its raw value is <= -90000.
C4_AsStated ==
    Assembled =>
        /\ Len(data_list) = Cardinality(ValidTimeIdx)
        /\ \A j \in ValidTimeIdx : \A name \in Fields :
            data_list[Rank(j)][KeyOf(name)] = None <=> LE(variables[name][j])

\* C4, amended: when the loop is over, every index with a valid time has its
\* record, whatever subset of its four fields is null, and each of bx, by, bz, bt
\* is null in it iff its own raw value is <= -90000 or NaN.
C4_Independent ==
    Assembled =>
        /\ Len(data_list) = Cardinality(ValidTimeIdx)
        /\ \A j \in ValidTimeIdx : \A name \in Fields :
            data_list[Rank(j)][KeyOf(name)] = None
                <=> (variables[name][j].k = "nan" \/ LE(variables[name][j]))

\* a record with bx and bz null (one from NaN), by and bt kept
C4_Witness ==
    /\ Assembled
    /\ Len(data_list) = 1
    /\ variables["bx_gsm"] = <<NaN>>
    /\ variables["bz_gsm"] = <<Num(Threshold)>>
    /\ data_list[1].bx = None /\ data_list[1].bz = None
    /\ data_list[1].by # None /\ data_list[1].bt # None

----------------------------------------------------------------------------
(* C5 *)

\* C5: once the function has returned, a dataset that was opened is closed.
C5_Released == (pc = "done" /\ f # "unbound") => f = "closed"

----------------------------------------------------------------------------
(* C6 *)

\* C6: whenever an error is reported, the output file is untouched or holds the
\* complete array of all assembled records.
C6_NoPartial ==
    ErrorReported =>
        \/ outfile = Untouched
        \/ outfile.state = "complete" /\ outfile.recs = data_list

----------------------------------------------------------------------------
(* C7 *)

\* C7: with one of the five variables absent, success is never reported, the
\* output file stays untouched, and the call ends with an error reported.
C7_Missing ==
    ~AllPresent =>
        /\ ~SuccessReported
        /\ outfile = Untouched
        /\ (pc = "done" => ErrorReported)

\* the lookup of bt failed after four lookups that succeeded
C7_Witness ==
    /\ pc = "done"
    /\ DOMAIN variables = Names \ {"bt"}
    /\ bound = {"times", "bx", "by", "bz"}
    /\ Reports("KeyError")

----------------------------------------------------------------------------
(* C8 *)

\* C8: no exception escapes the function, a call that has ended has reported a
\* success count or an error, and every call ends.
C8_NeverRaises ==
    /\ [](outcome # "propagated")
    /\ [](pc = "done" => (outcome = "returned" /\ (SuccessReported \/ ErrorReported)))
    /\ <>(pc = "done")

\* a call that returned after an IndexError in the loop
C8_Witness ==
    /\ pc = "done"
    /\ outcome = "returned"
    /\ Reports("IndexError")

----------------------------------------------------------------------------
(* C9 *)

\* C9 as stated: with arrays of different lengths, success is never reported,
\* the output file stays untouched, and the call ends with an error reported.
C9_AsStated ==
    (AllPresent /\ LengthsDiffer) =>
        /\ ~SuccessReported
        /\ outfile = Untouched
        /\ (pc = "done" => ErrorReported)

\* C9, amended: lengths are not compared. A valid time index at or beyond the end
\* of a field array makes the call end with an error, no success and no output;
\* without such an index no IndexError is raised, and the call ends with success
\* reported unless the open of the input or the writing of the output failed.
C9_Unchecked ==
    AllPresent =>
        /\ ShortAtValid =>
            /\ ~SuccessReported
            /\ outfile = Untouched
            /\ (pc = "done" => (Reports("IOError") \/ Reports("IndexError")))
        /\ ~ShortAtValid =>
            /\ ~Reports("IndexError")
            /\ (pc = "done" => (SuccessReported \/ Reports("IOError") \/ Reports("WriteError")))

\* success with a field longer than time and another shorter
C9_Witness ==
    /\ AllPresent
    /\ SuccessReported
    /\ Len(variables["bx_gsm"]) > Len(variables["time"])
    /\ Len(variables["bt"]) < Len(variables["time"])

----------------------------------------------------------------------------
(* C10 *)

\* C10: every record assembled or written has exactly the keys time, bx, by, bz,
\* bt and a time that is not null, and the number of records never exceeds the
\* number of indices processed, which never exceeds the length of the time list.
C10_Records ==
    /\ \A k \in 1..Len(data_list) :
        DOMAIN data_list[k] = Keys /\ data_list[k].time # None
    /\ \A k \in 1..Len(outfile.recs) :
        DOMAIN outfile.recs[k] = Keys /\ outfile.recs[k].time # None
    /\ Len(data_list) <= i
    /\ i <= Len(times)
    /\ Len(outfile.recs) <= Len(times)

\* inside the loop, two indices processed and one record emitted
C10_Witness ==
    /\ pc = "loop"
    /\ i = 2
    /\ Len(data_list) = 1

====
